---------------------------- MODULE Spec2Model ----------------------------
(***************************************************************************)
(* Model of idleon_saver/scripts/export.py: the Exporter that turns a      *)
(* decoded save into the idleon_companion JSON document and the two        *)
(* cogstruction CSV files.                                                 *)
(*                                                                         *)
(* Python values are modelled as follows.                                  *)
(*   str            a TLA+ string (Len, SubSeq and \o work on strings)     *)
(*   list           a sequence                                             *)
(*   dict           a function; a dict with string keys is a record        *)
(*   None           the record None                                        *)
(*   an exception   a result record whose err field names the exception    *)
(*   x / 100        the pair <<x, 100>> (numerator, denominator)           *)
(***************************************************************************)
EXTENDS Integers, Sequences, FiniteSets, TLC

VARIABLES
    savedata,   \* the decoded save handed to LocalExporter
    exporter,   \* the attributes of the Exporter object (self.*)
    files,      \* the output files of workdir
    outcome,    \* how the last export() call ended: "" before the first call
    built,      \* the structure the last export() call built (None if none)
    log,        \* one entry per export() call made so far
    call        \* the frame of a direct call of a module-level function

vars == <<savedata, exporter, files, outcome, built, log, call>>

\* ------------------------------------------------------------------ bounds
MaxExtra == 1      \* cog lists of up to 96 + MaxExtra entries
MaxStride == 1     \* strides of the board patterns
MaxExports == 2    \* export() calls per run
MaxPlayers == 2    \* players in the player database
MaxProg == 2       \* constellations recorded in StarSignProg
MaxReq == 2        \* card requirements 1..MaxReq
MaxOver == 1       \* card levels up to 9 * requirement + MaxOver

\* ----------------------------------------------------------------- Python
None == [none |-> TRUE]

Ok(v) == [err |-> "", val |-> v]

Raise(e) == [err |-> e]

Min(a, b) == IF a <= b THEN a ELSE b

startswith(s, p) == Len(s) >= Len(p) /\ SubSeq(s, 1, Len(p)) = p

endswith(s, p) == Len(s) >= Len(p) /\ SubSeq(s, Len(s) - Len(p) + 1, Len(s)) = p

removeprefix(s, p) == IF startswith(s, p) THEN SubSeq(s, Len(p) + 1, Len(s)) ELSE s

ascii_lowercase == "abcdefghijklmnopqrstuvwxyz"

ascii_uppercase == "ABCDEFGHIJKLMNOPQRSTUVWXYZ"

\* the position of the one-character string c in s, 0 if it does not occur
find(s, c) ==
    IF \E i \in 1..Len(s) : SubSeq(s, i, i) = c
    THEN CHOOSE i \in 1..Len(s) :
            /\ SubSeq(s, i, i) = c
            /\ \A j \in 1..(i - 1) : SubSeq(s, j, j) # c
    ELSE 0

contains(s, c) == find(s, c) # 0

isalpha(c) == contains(ascii_lowercase, c) \/ contains(ascii_uppercase, c)

upper(c) ==
    IF contains(ascii_lowercase, c)
    THEN LET i == find(ascii_lowercase, c) IN SubSeq(ascii_uppercase, i, i)
    ELSE c

lower(c) ==
    IF contains(ascii_uppercase, c)
    THEN LET i == find(ascii_uppercase, c) IN SubSeq(ascii_lowercase, i, i)
    ELSE c

RECURSIVE replace(_, _, _)
replace(s, old, new) ==
    IF s = "" THEN ""
    ELSE LET c == SubSeq(s, 1, 1)
         IN (IF c = old THEN new ELSE c) \o replace(SubSeq(s, 2, Len(s)), old, new)

\* str.title(): the first letter of every run of letters in upper case, the
\* other letters of the run in lower case
RECURSIVE title_from(_, _)
title_from(s, inword) ==
    IF s = "" THEN ""
    ELSE LET c == SubSeq(s, 1, 1)
         IN (IF inword THEN lower(c) ELSE upper(c))
                \o title_from(SubSeq(s, 2, Len(s)), isalpha(c))

title(s) == title_from(s, FALSE)


\* --------------------------------------------------------- reference data
\* idleon_saver.data is static reference data; the tables below hold the
\* entries the model uses.
class_names ==
    [i \in 0..37 |->
        CASE i = 1 -> "BEGINNER"
          [] i = 2 -> "JOURNEYMAN"
          [] i = 3 -> "MAESTRO"
          [] i = 4 -> "VIRTUOSO"
          [] i = 5 -> "INFINILYTE"
          [] i = 6 -> "RAGE_BASICS"
          [] i = 7 -> "WARRIOR"
          [] i = 8 -> "BARBARIAN"
          [] i = 9 -> "SQUIRE"
          [] i = 10 -> "BLOOD_BERSERKER"
          [] i = 11 -> "DEATH_BRINGER"
          [] i = 12 -> "DIVINE_KNIGHT"
          [] i = 13 -> "ROYAL_GUARDIAN"
          [] i = 18 -> "CALM_BASICS"
          [] i = 19 -> "ARCHER"
          [] i = 20 -> "BOWMAN"
          [] i = 21 -> "HUNTER"
          [] i = 22 -> "SIEGE_BREAKER"
          [] i = 23 -> "MAYHEIM"
          [] i = 24 -> "WIND_WALKER"
          [] i = 25 -> "BEAST_MASTER"
          [] i = 30 -> "SAVVY_BASICS"
          [] i = 31 -> "MAGE"
          [] i = 32 -> "WIZARD"
          [] i = 33 -> "SHAMAN"
          [] i = 34 -> "ELEMENTAL_SORCERER"
          [] i = 35 -> "SPIRITUAL_MONK"
          [] i = 36 -> "BUBONIC_CONJUROR"
          [] i = 37 -> "ARCANE_CULTIST"
          [] OTHER -> "FILLER"]

\* a dict in iteration order: a sequence of <<key, value>> pairs
cog_type_map ==
    << <<"ad", "Plus">>, <<"di", "X">>, <<"up", "Up">>, <<"do", "Down">>,
       <<"ri", "Right">>, <<"le", "Left">>, <<"ro", "Row">>, <<"co", "Col">> >>

cog_datas_map ==
    << <<"a", "build_rate">>, <<"c", "flaggy_rate">>, <<"e", "build_rate_boost">> >>

cog_boosts == {"e"}

constellation_names == <<"A-1", "A-2", "A-3", "A-4">>

pouch_names == [bCraft |-> "Materials", Foods |-> "Food", Mining |-> "Mining"]

pouch_sizes == [s \in {25, 50, 100} |->
                 CASE s = 25 -> "Cramped" [] s = 50 -> "Small" [] s = 100 -> "Average"]

card_reqs == [mushG |-> 5, frogG |-> 6]

monsterNames == [mushG |-> "Green Mushroom", frogG |-> "Frog"]

\* the JSON null of the save, where the save holds a string or null
null == "<null>"

\* ------------------------------------------------- module-level functions
IC == "idleon_companion"

COG == "cogstruction"

friendly_name(s) == title(replace(s, "_", " "))

get_baseclass(which) ==
    IF which \in 1..5 THEN Ok(1)
    ELSE IF \E base \in {7, 19, 31} : which \in base..(base + 6)
    THEN Ok(CHOOSE base \in {7, 19, 31} : which \in base..(base + 6))
    ELSE Raise("ValueError")

\* get_classname with the class id collapsed to its base class first
get_classname_base(which) ==
    LET base == get_baseclass(which)
    IN friendly_name(class_names[IF base.err = "" THEN base.val ELSE which])

get_classname(which) == friendly_name(class_names[which])

\* get_cardtier with > for >= at the top tier
get_cardtier_req_strict(req, level) ==
    IF level = 0 THEN 0
    ELSE IF level > req * 9 THEN 4
    ELSE IF level >= req * 4 THEN 3
    ELSE IF level >= req THEN 2
    ELSE 1

get_cardtier_req(req, level) ==
    IF level = 0 THEN 0
    ELSE IF level >= req * 9 THEN 4
    ELSE IF level >= req * 4 THEN 3
    ELSE IF level >= req THEN 2
    ELSE 1

get_cardtier(name, level) == get_cardtier_req(card_reqs[name], level)

\* get_pouchsize without the override for Foods
get_pouchsize_nofood(itemtype, stacksize) ==
    IF stacksize = 25 /\ itemtype = "bCraft" THEN "Mini"
    ELSE pouch_sizes[stacksize]

get_pouchsize(itemtype, stacksize) ==
    IF stacksize = 25 /\ itemtype = "bCraft" THEN "Mini"
    ELSE IF stacksize = 25 /\ itemtype = "Foods" THEN "Miniscule"
    ELSE pouch_sizes[stacksize]

pouch_key(itemtype, stacksize) ==
    get_pouchsize(itemtype, stacksize) \o " " \o pouch_names[itemtype] \o " Pouch"

get_pouches(carrycaps) ==
    [k \in {pouch_key(t, carrycaps[t]) : t \in {t \in DOMAIN carrycaps : carrycaps[t] > 10}}
        |-> TRUE]

BoardRows == 8

BoardCols == 12

BoardSize == 96

\* empties_row with the row length 8 for 12 in the position
RECURSIVE empties_row_8(_, _, _)
empties_row_8(cogs, y, x) ==
    IF x = BoardCols THEN <<>>
    ELSE LET i == y * 8 + x
         IN (IF cogs[i + 1] = "Blank"
             THEN <<[empties_x |-> x, empties_y |-> y]>>
             ELSE <<>>) \o empties_row_8(cogs, y, x + 1)

\* for x in range(12), from x on, in row y
RECURSIVE empties_row(_, _, _)
empties_row(cogs, y, x) ==
    IF x = BoardCols THEN <<>>
    ELSE LET i == y * 12 + x
         IN (IF cogs[i + 1] = "Blank"
             THEN <<[empties_x |-> x, empties_y |-> y]>>
             ELSE <<>>) \o empties_row(cogs, y, x + 1)

\* for y in range(8), from y on
RECURSIVE empties_loop(_, _)
empties_loop(cogs, y) ==
    IF y = BoardRows THEN <<>>
    ELSE empties_row(cogs, y, 0) \o empties_loop(cogs, y + 1)

\* get_empties that pads a short list with occupied slots instead of raising
get_empties_pad(cogs) ==
    Ok(empties_loop([i \in 1..BoardSize |-> IF i <= Len(cogs) THEN cogs[i] ELSE ""], 0))

get_empties(cogs) ==
    IF Len(cogs) < BoardSize THEN Raise("ValueError")
    ELSE Ok(empties_loop(cogs, 0))

RECURSIVE directional(_, _)
directional(name, k) ==
    IF k > Len(cog_type_map) THEN "Cog"
    ELSE IF endswith(name, cog_type_map[k][1]) THEN cog_type_map[k][2] \o "_Cog"
    ELSE directional(name, k + 1)

\* get_cog_type with the directional suffixes checked before CogY and CogZ
get_cog_type_suffix_first(name) ==
    IF name = "Blank" THEN "None"
    ELSE IF startswith(name, "Player_") THEN "Character"
    ELSE IF directional(name, 1) # "Cog" THEN directional(name, 1)
    ELSE IF name = "CogY" THEN "Yang_Cog"
    ELSE IF startswith(name, "CogZ") THEN "Omni_Cog"
    ELSE "Cog"

\* the cog type, or the string "None" for Python's None
get_cog_type(name) ==
    IF name = "Blank" THEN "None"
    ELSE IF startswith(name, "Player_") THEN "Character"
    ELSE IF name = "CogY" THEN "Yang_Cog"
    ELSE IF startswith(name, "CogZ") THEN "Omni_Cog"
    ELSE directional(name, 1)

cog_fields == {cog_datas_map[k][2] : k \in 1..Len(cog_datas_map)}

cog_key(field) ==
    LET k == CHOOSE k \in 1..Len(cog_datas_map) : cog_datas_map[k][2] = field
    IN cog_datas_map[k][1]

\* a cell of a row: <<>> for "", <<v>> for the raw value v, <<v, 100>> for v / 100
cog_cell(cog, key) ==
    IF key \notin DOMAIN cog THEN <<>>
    ELSE IF key \in cog_boosts THEN <<cog[key], 100>>
    ELSE <<cog[key]>>

get_cog_data(cog, name) ==
    LET cog_type == get_cog_type(name)
    IN IF cog_type = "None" THEN None
       ELSE [f \in {"cog type", "name"} \cup cog_fields |->
                IF f = "cog type" THEN cog_type
                ELSE IF f = "name"
                     THEN (IF cog_type = "Character" THEN removeprefix(name, "Player_") ELSE "")
                     ELSE cog_cell(cog, cog_key(f))]

\* ----------------------------------------------------------------- Exporter
\* LocalExporter.all_players: PlayerDATABASE is a dict; the sequence is its
\* values() in iteration order
all_players(sd, key) ==
    [i \in 1..Len(sd.PlayerDATABASE) |-> sd.PlayerDATABASE[i][key]]

\* the attributes the constructors set, of those the modelled sections read
LocalExporter(sd) ==
    [classes |-> all_players(sd, "CharacterClass"),
     carrycaps |-> all_players(sd, "MaxCarryCap"),
     names |-> sd.GetPlayersUsernames,
     starsigns_prog |-> sd.StarSignProg,
     cards |-> sd.Cards[1],
     cog_map |-> sd.CogMap,
     cog_order |-> sd.CogOrder]

\* filter(None, starmap(get_cog_data, zip(self.cog_map, self.cog_order)))
cog_datas(self) ==
    LET n == Min(Len(self.cog_map), Len(self.cog_order))
        all == [i \in 1..n |-> get_cog_data(self.cog_map[i], self.cog_order[i])]
    IN SelectSeq(all, LAMBDA d : d # None)

to_cogstruction(self) ==
    LET datas == cog_datas(self)
        empties == get_empties(self.cog_order)
    IN IF empties.err # "" THEN Raise(empties.err)
       ELSE Ok([cog_datas |-> datas, empties_datas |-> empties.val])

\* dict(zip(self.names, "_" + ascii_lowercase)): a later pair replaces an
\* earlier pair with the same key
char_map(self) ==
    LET codes == "_" \o ascii_lowercase
        n == Min(Len(self.names), Len(codes))
    IN [name \in {self.names[i] : i \in 1..n} |->
            LET last == CHOOSE i \in 1..n :
                            /\ self.names[i] = name
                            /\ \A j \in (i + 1)..n : self.names[j] # name
            IN SubSeq(codes, last, last)]

get_cards(self) ==
    [m \in {monsterNames[name] : name \in {c \in DOMAIN self.cards : self.cards[c] > 0}} |->
        LET name == CHOOSE c \in DOMAIN self.cards : monsterNames[c] = m
        IN get_cardtier(name, self.cards[name])]

get_player_constellations(self, charname) ==
    LET prog == self.starsigns_prog
        chars(i) == IF prog[i][1] = null THEN "" ELSE prog[i][1]
    IN [c \in {constellation_names[i] :
                i \in {k \in 1..Len(prog) : contains(chars(k), char_map(self)[charname])}}
            |-> TRUE]

\* the name, class, constellations and pouch items of the record
build_char(self, name, klass, carrycaps) ==
    [name |-> name,
     class |-> get_classname(klass),
     constellations |-> get_player_constellations(self, name),
     items |-> get_pouches(carrycaps)]

get_chars(self) ==
    LET n == Min(Len(self.names), Min(Len(self.classes), Len(self.carrycaps)))
    IN [i \in 1..n |->
            build_char(self, self.names[i], self.classes[i], self.carrycaps[i])]

\* the cards and chars sections of the document
to_idleon_companion(self) ==
    Ok([cards |-> get_cards(self), chars |-> get_chars(self)])

\* ------------------------------------------------------------------ files
\* A file is absent or holds the sequence of the lines written to it; a file
\* opened for writing and not written to exists with no line.
Absent == [exists |-> FALSE, lines |-> <<>>]

ic_file == "idleon_companion.json"

cog_file == "cog_datas.csv"

empties_file == "empties_datas.csv"

FileNames == {ic_file, cog_file, empties_file}

\* write_file with the file opened in mode "a"
write_file_append(fs, name, lines) ==
    [fs EXCEPT ![name] = [exists |-> TRUE, lines |-> fs[name].lines \o lines]]

\* open(outfile, "w") followed by the writes of lines
write_file(fs, name, lines) == [fs EXCEPT ![name] = [exists |-> TRUE, lines |-> lines]]

save_idleon_companion(self, fs) ==
    LET opened == write_file(fs, ic_file, <<>>)
        doc == to_idleon_companion(self)
    IN IF doc.err # ""
       THEN [files |-> opened, outcome |-> doc.err, built |-> None]
       ELSE [files |-> write_file(fs, ic_file, <<doc.val>>),
             outcome |-> "ok", built |-> doc.val]

\* data[which][0].keys(), in insertion order
fieldnames(which) ==
    IF which = "cog_datas"
    THEN <<"cog type", "name">> \o [k \in 1..Len(cog_datas_map) |-> cog_datas_map[k][2]]
    ELSE <<"empties_x", "empties_y">>

\* writer.writeheader() and writer.writerow(row) for every row
csv_lines(header, rows) ==
    <<header>> \o [k \in 1..Len(rows) |-> [j \in 1..Len(header) |-> rows[k][header[j]]]]

\* one iteration of the loop over ["cog_datas", "empties_datas"], from the
\* files fs: the files after it and the exception it raised, if any
save_one(fs, which, rows) ==
    LET name == which \o ".csv"
        opened == write_file(fs, name, <<>>)
    IN IF rows = <<>>
       THEN [files |-> opened, err |-> "IndexError"]
       ELSE [files |-> write_file(fs, name, csv_lines(fieldnames(which), rows)), err |-> ""]

save_cogstruction(self, fs) ==
    LET data == to_cogstruction(self)
    IN IF data.err # ""
       THEN [files |-> fs, outcome |-> data.err, built |-> None]
       ELSE LET one == save_one(fs, "cog_datas", data.val.cog_datas)
                two == save_one(one.files, "empties_datas", data.val.empties_datas)
            IN IF one.err # ""
               THEN [files |-> one.files, outcome |-> one.err, built |-> data.val]
               ELSE IF two.err # ""
               THEN [files |-> two.files, outcome |-> two.err, built |-> data.val]
               ELSE [files |-> two.files, outcome |-> "ok", built |-> data.val]

export(self, fmt, fs) ==
    IF fmt = IC THEN save_idleon_companion(self, fs)
    ELSE IF fmt = COG THEN save_cogstruction(self, fs)
    ELSE [files |-> fs, outcome |-> "ValueError", built |-> None]

\* ----------------------------------------------------------------- inputs
\* names of cog board slots
NamePool ==
    <<"Blank", "Player_Alice", "CogY", "CogZfoo", "Cog1A00", "CogCry0ad",
      "Player_Bobdi", "CogZup", "CogYle">>

\* cogs: each has only the keys of the bonuses it has
CogPool == << [a |-> 5], [a |-> 3, e |-> 150], <<>>, [c |-> 2, e |-> 25] >>

\* the cog list of n entries whose entry i is taken from NamePool, starting at
\* offset and advancing by stride
Board(n, stride, offset) ==
    [i \in 1..n |-> NamePool[((stride * (i - 1) + offset) % Len(NamePool)) + 1]]

CogMapOf(m) == [i \in 1..m |-> CogPool[((i - 1) % Len(CogPool)) + 1]]

BoardLens == {0, 1, BoardSize - 1, BoardSize} \cup {BoardSize + k : k \in 1..MaxExtra}

Boards ==
    {Board(n, stride, offset) :
        n \in BoardLens, stride \in 0..MaxStride, offset \in 0..(Len(NamePool) - 1)}

PlayerNames == {"Ann", "Bob"}

ClassIds == {1, 2, 7, 8}

ProgChars == {null, "", "_", "a", "_a", "b"}

StackSizes == {0, 10} \cup DOMAIN pouch_sizes

CarryCaps == [DOMAIN pouch_names -> StackSizes]

Player(klass, carrycaps) == [CharacterClass |-> klass, MaxCarryCap |-> carrycaps]

DefaultCaps == [bCraft |-> 25, Foods |-> 50, Mining |-> 10]

SaveData(names, players, prog, board, cogmap) ==
    [GetPlayersUsernames |-> names,
     PlayerDATABASE |-> players,
     StarSignProg |-> prog,
     Cards |-> << [mushG |-> 20, frogG |-> 0] >>,
     CogMap |-> cogmap,
     CogOrder |-> board]

\* saves with one player and the given board, with a cog map that is as long
\* as the cog list, one shorter or one longer
CogSavesOf(board) ==
    {SaveData(<<"Ann">>, <<Player(8, DefaultCaps)>>, << <<"_", 1>>, <<null, 0>> >>,
              board, CogMapOf(m)) :
        m \in {k \in {Len(board) - 1, Len(board), Len(board) + 1} : k >= 0}}

\* saves with 1..MaxPlayers players and one board; either the classes or the
\* recorded constellations vary
CharSavesOf(np) ==
    LET board == Board(BoardSize, 1, 0)
        cogmap == CogMapOf(BoardSize)
        fixedprog == << <<"_a", 1>>, <<null, 0>> >>
    IN {SaveData(names, [i \in 1..np |-> Player(classes[i], DefaultCaps)],
                 fixedprog, board, cogmap) :
            names \in [1..np -> PlayerNames], classes \in [1..np -> ClassIds]}
       \cup
       {SaveData(names, [i \in 1..np |-> Player(8, DefaultCaps)],
                 [k \in 1..Len(chars) |-> <<chars[k], 0>>], board, cogmap) :
            names \in [1..np -> PlayerNames],
            chars \in UNION {[1..k -> ProgChars] : k \in 1..MaxProg}}

NoFiles == [f \in FileNames |-> Absent]

\* files an earlier run left in workdir
OldFiles ==
    [f \in FileNames |->
        [exists |-> TRUE,
         lines |-> CASE f = ic_file -> << [cards |-> <<>>, chars |-> <<>>] >>
                     [] f = cog_file ->
                            <<fieldnames("cog_datas"), <<"Cog", "", <<1>>, <<>>, <<>>>> >>
                     [] f = empties_file ->
                            <<fieldnames("empties_datas"), <<0, 0>> >>]]

NoCall == [fn |-> "", args |-> <<>>, ret |-> <<>>, done |-> FALSE]

\* ---------------------------------------------------------- state machine
\* the state after LocalExporter(savedata) was constructed
InitOf(saves, fss) ==
    /\ savedata \in saves
    /\ exporter = LocalExporter(savedata)
    /\ files \in fss
    /\ outcome = ""
    /\ built = None
    /\ log = <<>>
    /\ call = NoCall

Init == InitOf(UNION {CogSavesOf(board) : board \in Boards}, {NoFiles, OldFiles})

InitChars == InitOf(UNION {CharSavesOf(np) : np \in 1..MaxPlayers}, {NoFiles})

\* Exporter.export(fmt, workdir)
Export(fmt) ==
    /\ Len(log) < MaxExports
    /\ LET r == export(exporter, fmt, files)
       IN /\ files' = r.files
          /\ outcome' = r.outcome
          /\ built' = r.built
          /\ log' = Append(log, [fmt |-> fmt, before |-> files, after |-> r.files,
                                 outcome |-> r.outcome, built |-> r.built,
                                 savedata |-> savedata, exporter |-> exporter])
    /\ UNCHANGED <<savedata, exporter, call>>

ExportIC == Export(IC)

ExportCOG == Export(COG)

ExportOther == Export("other")

Next == ExportIC \/ ExportCOG \/ ExportOther

Spec == Init /\ [][Next]_vars

NextChars == ExportIC

SpecChars == InitChars /\ [][NextChars]_vars

\* ---------------------------------------------- direct calls of functions
DefaultSave ==
    SaveData(<<"Ann">>, <<Player(8, DefaultCaps)>>, << <<"_", 1>>, <<null, 0>> >>,
             Board(BoardSize, 1, 0), CogMapOf(BoardSize))

\* get_cardtier for one requirement and two levels
CardtierCalls ==
    {[fn |-> "get_cardtier", args |-> <<req, l1, l2>>, ret |-> <<>>, done |-> FALSE] :
        req \in 1..MaxReq, l1 \in 0..(9 * MaxReq + MaxOver), l2 \in 0..(9 * MaxReq + MaxOver)}

PouchesCalls ==
    {[fn |-> "get_pouches", args |-> <<carrycaps>>, ret |-> <<>>, done |-> FALSE] :
        carrycaps \in CarryCaps}

InitCalls ==
    /\ savedata = DefaultSave
    /\ exporter = LocalExporter(savedata)
    /\ files = NoFiles
    /\ outcome = ""
    /\ built = None
    /\ log = <<>>
    /\ call \in CardtierCalls \cup PouchesCalls

Call_get_cardtier ==
    /\ call.fn = "get_cardtier"
    /\ ~call.done
    /\ call' = [call EXCEPT !.done = TRUE,
                            !.ret = <<get_cardtier_req(call.args[1], call.args[2]),
                                      get_cardtier_req(call.args[1], call.args[3])>>]
    /\ UNCHANGED <<savedata, exporter, files, outcome, built, log>>

Call_get_pouches ==
    /\ call.fn = "get_pouches"
    /\ ~call.done
    /\ call' = [call EXCEPT !.done = TRUE, !.ret = get_pouches(call.args[1])]
    /\ UNCHANGED <<savedata, exporter, files, outcome, built, log>>

NextCalls == Call_get_cardtier \/ Call_get_pouches

SpecCalls == InitCalls /\ [][NextCalls]_vars

\* ----------------------------------------------------------------- claims
\* the tier the specification gives for a level and a requirement
ClaimedTier(level, req) ==
    CASE level = 0 -> 0
      [] level > 0 /\ level < req -> 1
      [] level >= req /\ level < 4 * req -> 2
      [] level >= 4 * req /\ level < 9 * req -> 3
      [] level >= 9 * req -> 4

\* C3: for every level L >= 0 and requirement R > 0, get_cardtier returns a
\* value of 0..4, 0 when L = 0, 4 if L >= 9R, 3 if L >= 4R, 2 if L >= R, else 1
\* for L > 0, and the tier does not decrease when the level grows.
C3_CardTier ==
    (call.fn = "get_cardtier" /\ call.done) =>
        LET req == call.args[1]
            l1 == call.args[2]
            l2 == call.args[3]
        IN /\ call.ret[1] \in 0..4
           /\ call.ret[2] \in 0..4
           /\ call.ret[1] = ClaimedTier(l1, req)
           /\ call.ret[2] = ClaimedTier(l2, req)
           /\ (l1 = 0 => call.ret[1] = 0)
           /\ (l1 <= l2 => call.ret[1] <= call.ret[2])

\* a call at the two upper tier boundaries: l1 = 4R gives 3 and l2 = 9R gives 4
C3_Witness ==
    /\ call.fn = "get_cardtier"
    /\ call.done
    /\ call.args[1] = MaxReq
    /\ call.args[2] = 4 * MaxReq
    /\ call.args[3] = 9 * MaxReq
    /\ call.ret = <<3, 4>>

\* the size qualifier the specification gives
ClaimedQualifier(itemtype, stacksize) ==
    CASE stacksize = 25 /\ itemtype = "bCraft" -> "Mini"
      [] stacksize = 25 /\ itemtype = "Foods" -> "Miniscule"
      [] OTHER -> pouch_sizes[stacksize]

ClaimedPouch(itemtype, stacksize) ==
    ClaimedQualifier(itemtype, stacksize) \o " " \o pouch_names[itemtype] \o " Pouch"

\* C9: get_pouches emits a pouch entry, with the value True, exactly for the
\* categories whose stack size is greater than 10; its qualifier is "Mini" for
\* bCraft at 25, "Miniscule" for Foods at 25 and the pouch_sizes entry otherwise.
C9_Pouches ==
    (call.fn = "get_pouches" /\ call.done) =>
        LET carrycaps == call.args[1]
            over == {t \in DOMAIN carrycaps : carrycaps[t] > 10}
        IN /\ DOMAIN call.ret = {ClaimedPouch(t, carrycaps[t]) : t \in over}
           /\ Cardinality(DOMAIN call.ret) = Cardinality(over)
           /\ \A k \in DOMAIN call.ret : call.ret[k] = TRUE
           /\ \A t \in DOMAIN carrycaps :
                carrycaps[t] <= 10 =>
                    \A k \in DOMAIN call.ret : ~endswith(k, pouch_names[t] \o " Pouch")

\* both overrides, and a category at 10 that gets no pouch
C9_Witness ==
    /\ call.fn = "get_pouches"
    /\ call.done
    /\ call.args[1] = [bCraft |-> 25, Foods |-> 25, Mining |-> 10]
    /\ DOMAIN call.ret = {"Mini Materials Pouch", "Miniscule Food Pouch"}

\* the export() calls made so far with the format fmt
Calls(fmt) == {k \in 1..Len(log) : log[k].fmt = fmt}

\* C1: a cog list with fewer than 96 entries makes get_empties, and with it
\* to_cogstruction, fail with the ValueError of get_empties whatever the
\* entries are, and no empty-slot rows are returned.
C1_ShortBoardFails ==
    \A k \in Calls(COG) :
        Len(log[k].exporter.cog_order) < 96 =>
            /\ get_empties(log[k].exporter.cog_order) = Raise("ValueError")
            /\ to_cogstruction(log[k].exporter) = Raise("ValueError")
            /\ log[k].outcome = "ValueError"
            /\ log[k].built = None

\* a cogstruction export of a 95-entry list with blank and occupied entries
C1_Witness ==
    \E k \in Calls(COG) :
        LET cogs == log[k].exporter.cog_order
        IN /\ Len(cogs) = 95
           /\ \E i \in 1..95 : cogs[i] = "Blank"
           /\ \E i \in 1..95 : cogs[i] # "Blank"
           /\ log[k].outcome = "ValueError"

\* C2: for a cog list of at least 96 entries get_empties returns exactly one
\* pair (x, y) = (i mod 12, i div 12) for each position i of 0..95 that holds
\* "Blank", none for an occupied position and none for a position past 95.
C2_Empties ==
    \A k \in Calls(COG) :
        LET cogs == log[k].exporter.cog_order
        IN Len(cogs) >= 96 =>
            /\ log[k].built # None
            /\ LET empties == log[k].built.empties_datas
               IN /\ \A i \in 0..95 :
                        Cardinality({e \in 1..Len(empties) :
                            empties[e] = [empties_x |-> i % 12, empties_y |-> i \div 12]})
                        = IF cogs[i + 1] = "Blank" THEN 1 ELSE 0
                  /\ \A e \in 1..Len(empties) :
                        empties[e].empties_x \in 0..11 /\ empties[e].empties_y \in 0..7
                  /\ Len(empties) = Cardinality({i \in 0..95 : cogs[i + 1] = "Blank"})

\* the 96-slot board of blanks: 96 pairs
C2_Witness ==
    \E k \in Calls(COG) :
        LET cogs == log[k].exporter.cog_order
        IN /\ Len(cogs) = 96
           /\ \A i \in 1..96 : cogs[i] = "Blank"
           /\ Len(log[k].built.empties_datas) = 96

\* the type the specification gives a slot name that is not "Blank"
ClaimedCogType(name) ==
    CASE startswith(name, "Player_") -> "Character"
      [] ~startswith(name, "Player_") /\ name = "CogY" -> "Yang_Cog"
      [] ~startswith(name, "Player_") /\ name # "CogY" /\ startswith(name, "CogZ") -> "Omni_Cog"
      [] OTHER ->
            IF \E d \in 1..Len(cog_type_map) : endswith(name, cog_type_map[d][1])
            THEN LET d == CHOOSE d \in 1..Len(cog_type_map) : endswith(name, cog_type_map[d][1])
                 IN cog_type_map[d][2] \o "_Cog"
            ELSE "Cog"

\* the slots that to_cogstruction pairs with a cog and that are not blank
Occupied(self) ==
    SelectSeq([i \in 1..Min(Len(self.cog_map), Len(self.cog_order)) |-> i],
              LAMBDA i : self.cog_order[i] # "Blank")

\* C4: no cog row is built for "Blank"; a Player_ name is "Character" with the
\* name stripped of the prefix; else "CogY" is Yang_Cog; else a CogZ prefix is
\* Omni_Cog; else a directional suffix gives "{direction}_Cog"; else "Cog".
C4_CogType ==
    \A k \in Calls(COG) :
        log[k].built # None =>
            LET self == log[k].exporter
                rows == log[k].built.cog_datas
                occ == Occupied(self)
            IN /\ Len(rows) = Len(occ)
               /\ \A r \in 1..Len(rows) :
                    LET name == self.cog_order[occ[r]]
                    IN /\ rows[r]["cog type"] = ClaimedCogType(name)
                       /\ rows[r]["cog type"] = "Character" =>
                            "Player_" \o rows[r]["name"] = name

\* a board with a Character that ends in a directional suffix, an Omni cog that
\* ends in one, a name that only starts with CogY, and a blank
C4_Witness ==
    \E k \in Calls(COG) :
        /\ log[k].built # None
        /\ LET self == log[k].exporter
               rows == log[k].built.cog_datas
               occ == Occupied(self)
           IN /\ \E i \in 1..Len(self.cog_order) : self.cog_order[i] = "Blank"
              /\ \E r \in 1..Len(rows) :
                    /\ self.cog_order[occ[r]] = "Player_Bobdi"
                    /\ rows[r]["cog type"] = "Character"
                    /\ rows[r]["name"] = "Bobdi"
              /\ \E r \in 1..Len(rows) :
                    self.cog_order[occ[r]] = "CogZup" /\ rows[r]["cog type"] = "Omni_Cog"
              /\ \E r \in 1..Len(rows) :
                    self.cog_order[occ[r]] = "CogYle" /\ rows[r]["cog type"] = "Left_Cog"
              /\ \E r \in 1..Len(rows) :
                    self.cog_order[occ[r]] = "CogY" /\ rows[r]["cog type"] = "Yang_Cog"

\* C5: the number of cog data rows equals the number of entries of the cog
\* order list that are not "Blank", for every cog map / cog order pair.
C5_OneRowPerOccupiedSlot ==
    \A k \in Calls(COG) :
        log[k].built # None =>
            Len(log[k].built.cog_datas)
                = Cardinality({i \in 1..Len(log[k].exporter.cog_order) :
                                    log[k].exporter.cog_order[i] # "Blank"})

\* a file that holds everything its writer writes
Complete(file) == file.exists /\ Len(file.lines) >= 1

\* C6: after a failed export every output file is unchanged or complete.
C6_NoPartialFiles ==
    \A k \in 1..Len(log) :
        log[k].outcome # "ok" =>
            \A f \in FileNames :
                log[k].after[f] = log[k].before[f] \/ Complete(log[k].after[f])

\* the files a format writes
Written(fmt) ==
    IF fmt = IC THEN {ic_file} ELSE IF fmt = COG THEN {cog_file, empties_file} ELSE {}

\* C10: every export() call leaves the save data and the Exporter's attributes
\* as they were, and two calls with the same format end the same way, build
\* the same structure and leave the same file contents.
C10_Idempotent ==
    /\ \A k \in 1..Len(log) :
            log[k].savedata = savedata /\ log[k].exporter = exporter
    /\ \A j, k \in 1..Len(log) :
            log[j].fmt = log[k].fmt =>
                /\ log[j].outcome = log[k].outcome
                /\ log[j].built = log[k].built
                /\ \A f \in Written(log[k].fmt) : log[j].after[f] = log[k].after[f]

\* two successful exports of each kind were made in a row
C10_Witness ==
    /\ Len(log) >= 2
    /\ log[1].fmt = log[2].fmt
    /\ log[1].fmt = COG
    /\ log[1].outcome = "ok"
    /\ Len(log[2].after[cog_file].lines) > 1
    /\ log[1].before[cog_file].exists

\* the display name of the base class of a class id
BaseClassName(which) == friendly_name(class_names[get_baseclass(which).val])

\* C7 as stated: the class of a record is the display name of the base class
\* of the player's class id, so ids of one range give one class name.
C7_BaseClassName ==
    \A k \in Calls(IC) :
        log[k].outcome = "ok" =>
            \A p \in 1..Len(log[k].built.chars) :
                log[k].built.chars[p].class = BaseClassName(log[k].exporter.classes[p])

\* the display names of the class ids of ClassIds
DisplayName(which) ==
    CASE which = 1 -> "Beginner"
      [] which = 2 -> "Journeyman"
      [] which = 7 -> "Warrior"
      [] which = 8 -> "Barbarian"

\* C7 as amended: the class of a record is the display name of the player's
\* own class id; the base-class lookup is not applied, so two players whose
\* class ids differ have different class names, also within one range.
C7_OwnClassName ==
    \A k \in Calls(IC) :
        log[k].outcome = "ok" =>
            LET chars == log[k].built.chars
                classes == log[k].exporter.classes
            IN /\ Len(chars) = Len(classes)
               /\ \A p \in 1..Len(chars) : chars[p].class = DisplayName(classes[p])
               /\ \A p, q \in 1..Len(chars) :
                    classes[p] # classes[q] => chars[p].class # chars[q].class

\* two players of the warrior range, one Warrior and one Barbarian
C7_Witness ==
    \E k \in Calls(IC) :
        /\ log[k].outcome = "ok"
        /\ Len(log[k].built.chars) >= 2
        /\ log[k].exporter.classes[1] = 7
        /\ log[k].exporter.classes[2] = 8
        /\ log[k].built.chars[1].class = "Warrior"
        /\ log[k].built.chars[2].class = "Barbarian"

\* the code of the player at position p (from 1): "_", then "a".."z"
PositionCode(p) == SubSeq("_" \o ascii_lowercase, p, p)

\* C8: the record of the player at position p marks constellation c completed
\* if and only if the code of position p occurs in the c-th completion
\* string, a null or empty string marking it for nobody; for every player
\* list, also one in which two players have the same name.
C8_ConstellationByPosition ==
    \A k \in Calls(IC) :
        log[k].outcome = "ok" =>
            LET chars == log[k].built.chars
                prog == log[k].exporter.starsigns_prog
            IN \A p \in 1..Len(chars) :
                \A c \in 1..Len(prog) :
                    (constellation_names[c] \in DOMAIN chars[p].constellations)
                        <=> /\ prog[c][1] # null
                            /\ contains(prog[c][1], PositionCode(p))

=============================================================================
